---- MODULE Spec2Model ----
(***************************************************************************)
(* A model of formulaic.parser.types.structured.Structured: the container  *)
(* objects, the dict objects their _structure fields point to, and every   *)
(* method as an operator over that store.  Containers and dicts have       *)
(* identity (python references), so that sharing between containers is     *)
(* visible.                                                                *)
(***************************************************************************)
EXTENDS Integers, Sequences, FiniteSets, TLC

VARIABLES
    objs,      \* the Structured instances: objs[i] is the instance with id i
    dicts,     \* the dict objects: dicts[d] is the ordered item list of dict d
    call,      \* the last call made: the method and its arguments
    ret,       \* what the last call returned
    yielded,   \* what the last iteration yielded
    err,       \* the exception the last call raised, or "none"
    ncalls,    \* how many calls were made
    order      \* per dict object, its non-root keys in the order the calls
               \* first inserted them (a history of the calls, not program state)

vars == <<objs, dicts, call, ret, yielded, err, ncalls, order>>

----------------------------------------------------------------------------
(* Bounds of the model.                                                    *)

MaxObjs == 6
MaxCalls == 1

----------------------------------------------------------------------------
(* Names are python strings, modelled as sequences of characters.          *)

ROOT == <<"r", "o", "o", "t">>
NameA == <<"a">>
NameB == <<"b">>
NameX == <<"x">>
NameUnder == <<"_", "x">>
NameSpace == <<"a", " ", "b">>
NameEmpty == <<>>
NameMetadata == <<"_", "m", "e", "t", "a", "d", "a", "t", "a">>

Letters == {"a", "b", "d", "e", "m", "o", "r", "t", "x"}
Digits == {"0", "1", "2", "3", "4", "5", "6", "7", "8", "9"}

\* str.startswith("_")
startswith_underscore(name) == Len(name) >= 1 /\ name[1] = "_"

\* str.isidentifier()
isidentifier(name) ==
    /\ Len(name) >= 1
    /\ name[1] \in Letters \cup {"_"}
    /\ \A i \in 2..Len(name) : name[i] \in Letters \cup Digits \cup {"_"}

\* A bracket key is a python object: a str, None or an int.
StrKey(name) == [kind |-> "str", s |-> name, i |-> 0]
NoneKey == [kind |-> "none", s |-> <<>>, i |-> 0]
IntKey(i) == [kind |-> "int", s |-> <<>>, i |-> i]

----------------------------------------------------------------------------
(* Python values.  A slot holds a raw value (an int), a tuple of raw       *)
(* values, or a reference to a Structured instance.                        *)

Leaf(n) == [k |-> "leaf", n |-> n, g |-> <<>>]
Group(g) == [k |-> "group", n |-> 0, g |-> g]
Ref(i) == [k |-> "ref", n |-> i, g |-> <<>>]
\* what callables make of Structured instance i as a whole: g lists the
\* callables applied, in order
Opaque(i, g) == [k |-> "opaque", n |-> i, g |-> g]
NoneVal == [k |-> "none", n |-> 0, g |-> <<>>]
MISSING == [k |-> "missing", n |-> 0, g |-> <<>>]

\* isinstance(v, Structured)
isStructured(v) == v.k = "ref"
\* isinstance(v, tuple), and isinstance(v, Sequence) for the values modelled
isTuple(v) == v.k = "group"

\* The callables handed to _map: the caller's func, and the lambda of
\* __getattr__ that reads a mapped attribute off each object.
\* On a raw value n the first gives n + 10 and the second n + 100; on a
\* Structured instance either gives a value that is no longer a container,
\* and on such a value another one.
ApplyElem(f, n) == n + (IF f = "getattr" THEN 100 ELSE 10)
Apply(f, v) ==
    CASE v.k = "leaf" -> Leaf(ApplyElem(f, v.n))
      [] v.k = "ref" -> Opaque(v.n, <<ApplyElem(f, 0)>>)
      [] OTHER -> Opaque(v.n, Append(v.g, ApplyElem(f, 0)))

----------------------------------------------------------------------------
(* Python dicts: ordered lists of items, a key at most once.               *)

Item(key, val) == [key |-> key, val |-> val]
DictKeys(items) == {items[i].key : i \in 1..Len(items)}
KeyList(items) == [i \in 1..Len(items) |-> items[i].key]
HasKey(items, key) == key \in DictKeys(items)
Lookup(items, key) ==
    (CHOOSE i \in 1..Len(items) : items[i].key = key)
Get(items, key) == items[Lookup(items, key)].val
\* d[key] = val: an existing key keeps its position, a new one goes last
DictSet(items, key, val) ==
    IF HasKey(items, key)
    THEN [items EXCEPT ![Lookup(items, key)].val = val]
    ELSE Append(items, Item(key, val))
\* {**a, **b}
RECURSIVE DictMerge(_, _)
DictMerge(a, b) ==
    IF b = <<>> THEN a
    ELSE DictMerge(DictSet(a, Head(b).key, Head(b).val), Tail(b))
\* the items whose key is not in keys, in order
RECURSIVE Without(_, _)
Without(items, keys) ==
    IF items = <<>> THEN <<>>
    ELSE IF Head(items).key \in keys THEN Without(Tail(items), keys)
    ELSE <<Head(items)>> \o Without(Tail(items), keys)

----------------------------------------------------------------------------
(* The store, and the result of a method call on it.                       *)

Store(o, d) == [objs |-> o, dicts |-> d]
Ok(st, val) == [st |-> st, val |-> val, err |-> "none"]
Raise(st, e) == [st |-> st, val |-> MISSING, err |-> e]

\* self._structure's items
Structure(st, self) == st.dicts[st.objs[self].structure]

\* _prepare_item: the pass-through hook
_prepare_item(key, item) == item

\* Structured.__init__(root, _mapped_attrs=..., _metadata=..., **structure)
Structured_init(st, root, mapped_attrs, metadata, structure) ==
    IF \E i \in 1..Len(structure) : startswith_underscore(structure[i].key)
    THEN Raise(st, "ValueError")
    ELSE LET s1 == IF root # MISSING
                   THEN DictSet(structure, ROOT, _prepare_item(ROOT, root))
                   ELSE structure
             new == [i \in 1..Len(s1) |->
                        Item(s1[i].key, _prepare_item(s1[i].key, s1[i].val))]
             d == Len(st.dicts) + 1
             o == Len(st.objs) + 1
         IN  Ok(Store(Append(st.objs, [structure |-> d,
                                       mapped_attrs |-> mapped_attrs,
                                       metadata |-> metadata]),
                      Append(st.dicts, new)),
                Ref(o))

\* cls(**kwargs): python binds the key "root" to the root parameter and
\* collects the other keys, in order, into **structure
CallWithKwargs(st, mapped_attrs, metadata, kwargs) ==
    Structured_init(st,
                    IF HasKey(kwargs, ROOT) THEN Get(kwargs, ROOT) ELSE MISSING,
                    mapped_attrs, metadata, Without(kwargs, {ROOT}))

_has_root(st, self) == HasKey(Structure(st, self), ROOT)
\* a slip: the root key counted as structure
has_structure_counting_root(st, self) == DictKeys(Structure(st, self)) # {}

_has_structure(st, self) == DictKeys(Structure(st, self)) # {ROOT}
root_of(st, self) == Get(Structure(st, self), ROOT)

----------------------------------------------------------------------------
(* _map *)

RECURSIVE _map(_, _, _, _)
RECURSIVE apply_func(_, _, _, _)
RECURSIVE map_items(_, _, _, _, _)

\* one item of the dict comprehension of _map: r is apply_func's result
map_item(r, items, func, recurse, acc) ==
    map_items(r.st, Tail(items), func, recurse,
              Append(acc, Item(Head(items).key, r.val)))

\* the dict comprehension of _map, item by item
map_items(st, items, func, recurse, acc) ==
    IF items = <<>> THEN [st |-> st, items |-> acc]
    ELSE map_item(apply_func(st, Head(items).val, func, recurse),
                  items, func, recurse, acc)

\* a slip: a nested instance mapped into, whatever recurse says
apply_func_always_recursing(st, obj, func, recurse) ==
    IF isStructured(obj) THEN _map(st, obj.n, func, TRUE)
    ELSE IF isTuple(obj)
    THEN Ok(st, Group([i \in 1..Len(obj.g) |-> ApplyElem(func, obj.g[i])]))
    ELSE Ok(st, Apply(func, obj))

apply_func(st, obj, func, recurse) ==
    IF recurse /\ isStructured(obj) THEN _map(st, obj.n, func, TRUE)
    ELSE IF isTuple(obj)
    THEN Ok(st, Group([i \in 1..Len(obj.g) |-> ApplyElem(func, obj.g[i])]))
    ELSE Ok(st, Apply(func, obj))

\* Structured[ItemType](**{...}): no _mapped_attrs, no _metadata
map_result(m) == CallWithKwargs(m.st, {}, NoneVal, m.items)

_map(st, self, func, recurse) ==
    map_result(map_items(st, Structure(st, self), func, recurse, <<>>))

----------------------------------------------------------------------------
(* _simplify *)

\* a slip: an if for the while, one wrapper taken off
simplify_walk_once(st, structured, unwrap) ==
    IF /\ isStructured(structured)
       /\ _has_root(st, structured.n)
       /\ ~_has_structure(st, structured.n)
       /\ (unwrap \/ isStructured(root_of(st, structured.n)))
    THEN root_of(st, structured.n)
    ELSE structured

\* the while loop of _simplify: down the chain of root-only wrappers
RECURSIVE simplify_walk(_, _, _)
simplify_walk(st, structured, unwrap) ==
    IF /\ isStructured(structured)
       /\ _has_root(st, structured.n)
       /\ ~_has_structure(st, structured.n)
       /\ (unwrap \/ isStructured(root_of(st, structured.n)))
    THEN simplify_walk(st, root_of(st, structured.n), unwrap)
    ELSE structured

RECURSIVE _simplify(_, _, _, _, _)
RECURSIVE simplify_items(_, _, _)

\* one item of the dict comprehension under "if recurse": r is the result
\* for the item's value
simplify_item(r, items, acc) ==
    simplify_items(r.st, Tail(items), Append(acc, Item(Head(items).key, r.val)))

\* a slip: the outer call's way of not unwrapping handed down,
\* value._simplify(recurse=True, unwrap=False)
simplify_items_not_unwrapping(st, items, acc) ==
    IF items = <<>> THEN [st |-> st, items |-> acc]
    ELSE simplify_item(IF isStructured(Head(items).val)
                       THEN _simplify(st, Head(items).val.n, TRUE, FALSE, FALSE)
                       ELSE Ok(st, Head(items).val),
                       items, acc)

\* a slip: the values taken as stored, no nested call
simplify_items_shallow(st, items, acc) ==
    [st |-> st, items |-> acc \o items]

\* the dict comprehension under "if recurse": value._simplify(recurse=True),
\* which leaves unwrap and inplace at their defaults (True, False)
simplify_items(st, items, acc) ==
    IF items = <<>> THEN [st |-> st, items |-> acc]
    ELSE simplify_item(IF isStructured(Head(items).val)
                       THEN _simplify(st, Head(items).val.n, TRUE, TRUE, FALSE)
                       ELSE Ok(st, Head(items).val),
                       items, acc)

\* the end of _simplify: r.items is the simplified structure, sd the dict
\* object of the instance the walk stopped on
simplify_result(st, self, r, sd, recurse, inplace) ==
    IF inplace
    THEN IF recurse
         THEN \* self._structure = the new dict the comprehension made
              Ok(Store([r.st.objs EXCEPT ![self].structure = Len(r.st.dicts) + 1],
                       Append(r.st.dicts, r.items)),
                 Ref(self))
         ELSE \* self._structure = structured._structure, the same dict object
              Ok(Store([st.objs EXCEPT ![self].structure = sd], st.dicts),
                 Ref(self))
    ELSE CallWithKwargs(r.st, st.objs[self].mapped_attrs,
                        st.objs[self].metadata, r.items)

simplify_from(st, self, structured, recurse, inplace) ==
    IF ~isStructured(structured) THEN Ok(st, structured)
    ELSE simplify_result(st, self,
                         IF recurse
                         THEN simplify_items(st, Structure(st, structured.n), <<>>)
                         ELSE [st |-> st, items |-> Structure(st, structured.n)],
                         st.objs[structured.n].structure, recurse, inplace)

_simplify(st, self, recurse, unwrap, inplace) ==
    IF inplace /\ unwrap THEN Raise(st, "RuntimeError")
    ELSE simplify_from(st, self, simplify_walk(st, Ref(self), unwrap),
                       recurse, inplace)

----------------------------------------------------------------------------
(* _update *)

\* a slip: the two dicts merged the other way round, the receiver's values
\* over the replacements
update_receiver_wins(st, self, root, structure) ==
    LET s1 == IF root # MISSING THEN DictSet(structure, ROOT, root) ELSE structure
        merged == DictMerge(s1, Structure(st, self))
        metadata == IF HasKey(merged, NameMetadata) THEN Get(merged, NameMetadata)
                    ELSE st.objs[self].metadata
    IN  CallWithKwargs(st, st.objs[self].mapped_attrs, metadata,
                       Without(merged, {NameMetadata}))

\* self.__class__(**{"_mapped_attrs": ..., "_metadata": ..., **self._structure,
\* **structure}): a replacement named _metadata overrides the receiver's
_update(st, self, root, structure) ==
    LET s1 == IF root # MISSING THEN DictSet(structure, ROOT, root) ELSE structure
        prepared == [i \in 1..Len(s1) |->
                        Item(s1[i].key, _prepare_item(s1[i].key, s1[i].val))]
        merged == DictMerge(Structure(st, self), prepared)
        metadata == IF HasKey(merged, NameMetadata) THEN Get(merged, NameMetadata)
                    ELSE st.objs[self].metadata
    IN  CallWithKwargs(st, st.objs[self].mapped_attrs, metadata,
                       Without(merged, {NameMetadata}))

----------------------------------------------------------------------------
(* attribute and bracket access, iteration, equality *)

__getattr__(st, self, attr) ==
    IF startswith_underscore(attr) THEN Raise(st, "AttributeError")
    ELSE IF HasKey(Structure(st, self), attr) THEN Ok(st, Get(Structure(st, self), attr))
    ELSE IF attr \in st.objs[self].mapped_attrs THEN _map(st, self, "getattr", TRUE)
    ELSE Raise(st, "AttributeError")

\* self._structure[key] = value: the dict object itself is changed
StoreItem(st, self, key, value) ==
    Store(st.objs,
          [st.dicts EXCEPT ![st.objs[self].structure] =
              DictSet(@, key, _prepare_item(key, value))])

\* an underscore name goes to object.__setattr__, which has no such slot
__setattr__(st, self, attr, value) ==
    IF startswith_underscore(attr) THEN Raise(st, "AttributeError")
    ELSE Ok(StoreItem(st, self, attr, value), NoneVal)

\* a slip: the item stored before the key is looked at
setitem_storing_first(st, self, key, value) ==
    IF key.kind # "str" THEN Raise(st, "KeyError")
    ELSE IF ~isidentifier(key.s) \/ startswith_underscore(key.s)
    THEN Raise(StoreItem(st, self, key.s, value), "KeyError")
    ELSE Ok(StoreItem(st, self, key.s, value), NoneVal)

__setitem__(st, self, key, value) ==
    IF key.kind # "str" \/ ~isidentifier(key.s) THEN Raise(st, "KeyError")
    ELSE IF startswith_underscore(key.s) THEN Raise(st, "KeyError")
    ELSE Ok(StoreItem(st, self, key.s, value), NoneVal)

RECURSIVE __getitem__(_, _, _)
\* obj[key] for the payload a bare root forwards to
subscript(st, obj, key) ==
    CASE isStructured(obj) -> __getitem__(st, obj.n, key)
      [] isTuple(obj) ->
            IF key.kind # "int" THEN Raise(st, "TypeError")
            ELSE IF key.i + 1 \in 1..Len(obj.g) THEN Ok(st, Leaf(obj.g[key.i + 1]))
            ELSE Raise(st, "IndexError")
      [] OTHER -> Raise(st, "TypeError")

__getitem__(st, self, key) ==
    IF _has_root(st, self) /\ ~_has_structure(st, self)
    THEN subscript(st, root_of(st, self), key)
    ELSE IF (key.kind = "none" \/ key = StrKey(ROOT)) /\ _has_root(st, self)
    THEN Ok(st, root_of(st, self))
    ELSE IF /\ key.kind = "str"
            /\ ~startswith_underscore(key.s)
            /\ HasKey(Structure(st, self), key.s)
    THEN Ok(st, Get(Structure(st, self), key.s))
    ELSE Raise(st, "KeyError")

\* a slip: the dict's values as they come, root where it was inserted
iter_in_dict_order(st, self) ==
    LET items == Structure(st, self)
    IN  IF /\ _has_root(st, self)
           /\ ~_has_structure(st, self)
           /\ isTuple(root_of(st, self))
        THEN [i \in 1..Len(root_of(st, self).g) |-> Leaf(root_of(st, self).g[i])]
        ELSE [i \in 1..Len(items) |-> items[i].val]

\* the values __iter__ yields, in order
__iter__(st, self) ==
    LET items == Structure(st, self)
        rest == Without(items, {ROOT})
        first == IF /\ _has_root(st, self)
                    /\ ~_has_structure(st, self)
                    /\ isTuple(root_of(st, self))
                 THEN [i \in 1..Len(root_of(st, self).g) |-> Leaf(root_of(st, self).g[i])]
                 ELSE IF _has_root(st, self) THEN <<root_of(st, self)>>
                 ELSE <<>>
    IN  first \o [i \in 1..Len(rest) |-> rest[i].val]

\* a == b for two python values: dict equality on the slot maps of two
\* Structured instances, never equal for a Structured and anything else
RECURSIVE __eq__(_, _, _)
__eq__(st, a, b) ==
    IF isStructured(a) /\ isStructured(b)
    THEN LET x == Structure(st, a.n)
             y == Structure(st, b.n)
         IN  /\ DictKeys(x) = DictKeys(y)
             /\ \A key \in DictKeys(x) : __eq__(st, Get(x, key), Get(y, key))
    ELSE IF isStructured(a) \/ isStructured(b) THEN FALSE
    ELSE a = b

----------------------------------------------------------------------------
(* The inputs the calls are made with.                                     *)

Ids == 1..Len(objs)
Now == Store(objs, dicts)

\* the instances reachable from instance i through slots, i included
RECURSIVE Reach(_, _)
Reach(st, i) ==
    LET items == Structure(st, i)
        kids == {items[j].val.n : j \in {j \in 1..Len(items) : isStructured(items[j].val)}}
    IN  {i} \cup UNION {Reach(st, c) : c \in kids}

RawValues == {Leaf(1), Group(<<1, 2>>)}
Values == RawValues \cup {Ref(i) : i \in Ids}
\* the values that can be stored into self without making a cycle, which the
\* container does not support
StorableIn(self) ==
    RawValues \cup {Ref(i) : i \in {i \in Ids :
        \A j \in Reach(Now, i) : objs[j].structure # objs[self].structure}}

SlotNames == {ROOT, NameA, NameB}
BadNames == {NameUnder, NameSpace, NameEmpty}
KwNames == {NameA, NameB, NameUnder, NameSpace}

\* _mapped_attrs and _metadata as given to the constructor
Plain == [mapped_attrs |-> {}, metadata |-> NoneVal]
Decorated == [mapped_attrs |-> {NameX}, metadata |-> Leaf(7)]

\* keyword arguments: no, one or two items with distinct names, the first
\* with value v1 and the second with value v2
KwLists(names, v1, v2) ==
    {<<>>}
    \cup {<<Item(n, v1)>> : n \in names}
    \cup UNION {{<<Item(n1, v1), Item(n2, v2)>> : n2 \in names \ {n1}} : n1 \in names}

\* The stores the calls start from are those constructor calls leave: one
\* instance, or two or three nested ones.
FirstKw == {<<>>, <<Item(NameA, Leaf(2))>>,
            <<Item(NameB, Leaf(1)), Item(NameA, Leaf(2))>>}
FlatStores ==
    {Structured_init(Store(<<>>, <<>>), root, dec.mapped_attrs, dec.metadata, kw).st :
        root \in {MISSING} \cup RawValues, kw \in FirstKw, dec \in {Plain, Decorated}}
InnerStores ==
    {Structured_init(Store(<<>>, <<>>), root, {}, NoneVal, kw).st :
        root \in {MISSING} \cup RawValues, kw \in {<<>>, <<Item(NameA, Leaf(2))>>}}
\* one more constructor call, around the instance built last
Wrapped(stores) ==
    UNION {LET x == Ref(Len(st.objs))
           IN  {Structured_init(st, x, {NameX}, Leaf(7), <<>>).st,
                Structured_init(st, x, {NameX}, Leaf(7), <<Item(NameB, Leaf(2))>>).st,
                Structured_init(st, MISSING, {NameX}, Leaf(7), <<Item(NameA, x)>>).st}
           : st \in stores}
NestedStores == Wrapped(InnerStores) \cup Wrapped(Wrapped(InnerStores))

NoCall == [op |-> "none", self |-> 0, key |-> NoneKey, val |-> MISSING,
           root |-> MISSING, kw |-> <<>>, dec |-> Plain, recurse |-> FALSE,
           unwrap |-> FALSE, inplace |-> FALSE]

Range(seq) == {seq[i] : i \in 1..Len(seq)}
NonRootKeys(items) == KeyList(Without(items, {ROOT}))

\* The order in which the calls inserted the non-root keys of dict d, after
\* call c with result r: a write appends a name the dict did not hold; the
\* constructor inserts its keyword arguments in the order given; _update
\* inserts the receiver's keys and then the new replacement names in the
\* order given.  The dicts _map and _simplify build are taken as they are.
FirstInserted(c, r, d) ==
    IF d <= Len(dicts)
    THEN IF /\ c.op \in {"setattr", "setitem"}
            /\ r.err = "none"
            /\ d = objs[c.self].structure
            /\ c.key.s # ROOT
            /\ c.key.s \notin Range(order[d])
         THEN Append(order[d], c.key.s)
         ELSE order[d]
    ELSE IF c.op = "init" THEN KeyList(c.kw)
    ELSE IF c.op = "update"
    THEN LET old == order[objs[c.self].structure]
             IsNew(n) == n \notin Range(old) /\ n # NameMetadata
         IN  old \o SelectSeq(KeyList(c.kw), IsNew)
    ELSE NonRootKeys(r.st.dicts[d])

\* the effect of a call on the state: the store it leaves, what it returned
\* or raised
Effect(c, r, y) ==
    /\ Len(r.st.objs) <= MaxObjs
    /\ ncalls' = ncalls + 1
    /\ call' = c
    /\ objs' = r.st.objs
    /\ dicts' = r.st.dicts
    /\ ret' = r.val
    /\ err' = r.err
    /\ yielded' = y
    /\ order' = [d \in 1..Len(r.st.dicts) |-> FirstInserted(c, r, d)]

----------------------------------------------------------------------------
(* The calls.                                                              *)

StartFrom(stores) ==
    /\ \E st \in stores : objs = st.objs /\ dicts = st.dicts
    /\ call = NoCall
    /\ ret = MISSING
    /\ yielded = <<>>
    /\ err = "none"
    /\ ncalls = 0
    /\ order = [d \in 1..Len(dicts) |-> NonRootKeys(dicts[d])]

Init == StartFrom(FlatStores)

InitNested == StartFrom(NestedStores)

\* Structured(root, _mapped_attrs=..., _metadata=..., **kw)
Construct ==
    /\ ncalls < MaxCalls
    /\ \E root \in {MISSING} \cup Values,
       kw \in KwLists(KwNames, Leaf(2), Group(<<1, 2>>)),
       dec \in {Plain, Decorated} :
        Effect([NoCall EXCEPT !.op = "init", !.root = root, !.kw = kw, !.dec = dec],
               Structured_init(Now, root, dec.mapped_attrs, dec.metadata, kw), <<>>)

\* self.<attr> = value, setattr(self, attr, value)
SetAttr ==
    /\ ncalls < MaxCalls
    /\ \E self \in Ids, attr \in SlotNames \cup BadNames, value \in Values :
        /\ value \in StorableIn(self)
        /\ Effect([NoCall EXCEPT !.op = "setattr", !.self = self,
                                 !.key = StrKey(attr), !.val = value],
                  __setattr__(Now, self, attr, value), <<>>)

\* self[key] = value
SetItem ==
    /\ ncalls < MaxCalls
    /\ \E self \in Ids, value \in Values,
       key \in {StrKey(n) : n \in SlotNames \cup BadNames} \cup {NoneKey, IntKey(0)} :
        /\ value \in StorableIn(self)
        /\ Effect([NoCall EXCEPT !.op = "setitem", !.self = self,
                                 !.key = key, !.val = value],
                  __setitem__(Now, self, key, value), <<>>)

\* self.<attr>, getattr(self, attr)
GetAttr ==
    /\ ncalls < MaxCalls
    /\ \E self \in Ids, attr \in SlotNames \cup BadNames \cup {NameX} :
        Effect([NoCall EXCEPT !.op = "getattr", !.self = self, !.key = StrKey(attr)],
               __getattr__(Now, self, attr), <<>>)

\* self[key]
GetItem ==
    /\ ncalls < MaxCalls
    /\ \E self \in Ids,
       key \in {StrKey(n) : n \in SlotNames \cup BadNames}
                \cup {NoneKey, IntKey(0), IntKey(2)} :
        Effect([NoCall EXCEPT !.op = "getitem", !.self = self, !.key = key],
               __getitem__(Now, self, key), <<>>)

\* list(self)
Iterate ==
    /\ ncalls < MaxCalls
    /\ \E self \in Ids :
        Effect([NoCall EXCEPT !.op = "iter", !.self = self], Ok(Now, NoneVal),
               __iter__(Now, self))

\* self._update(root, **kw)
Update ==
    /\ ncalls < MaxCalls
    /\ \E self \in Ids, root \in {MISSING, Leaf(3)},
       kw \in KwLists({NameA, NameB, NameUnder, NameMetadata}, Leaf(3), Group(<<3, 4>>)) :
        Effect([NoCall EXCEPT !.op = "update", !.self = self, !.root = root, !.kw = kw],
               _update(Now, self, root, kw), <<>>)

\* self._map(func, recurse)
Map ==
    /\ ncalls < MaxCalls
    /\ \E self \in Ids, recurse \in BOOLEAN :
        Effect([NoCall EXCEPT !.op = "map", !.self = self, !.recurse = recurse],
               _map(Now, self, "func", recurse), <<>>)

\* self._simplify(recurse=..., unwrap=..., inplace=...)
Simplify ==
    /\ ncalls < MaxCalls
    /\ \E self \in Ids, recurse \in BOOLEAN, unwrap \in BOOLEAN, inplace \in BOOLEAN :
        Effect([NoCall EXCEPT !.op = "simplify", !.self = self, !.recurse = recurse,
                                 !.unwrap = unwrap, !.inplace = inplace],
               _simplify(Now, self, recurse, unwrap, inplace), <<>>)

Next ==
    \/ Construct
    \/ SetAttr
    \/ SetItem
    \/ GetAttr
    \/ GetItem
    \/ Iterate
    \/ Update
    \/ Map
    \/ Simplify

\* calls on one instance and on what the calls make of it
Spec == Init /\ [][Next]_vars

NextNested ==
    \/ Simplify
    \/ Map
    \/ Iterate
    \/ GetItem
    \/ GetAttr

\* the transforms and the forwarding reads on nested instances
SpecNested == InitNested /\ [][NextNested]_vars

----------------------------------------------------------------------------
(* What the claims are stated with.                                        *)

NowP == Store(objs', dicts')
Succeeded(op) == call.op = op /\ err = "none"
SucceededP(op) == call'.op = op /\ err' = "none"
RootOnly(st, i) == DictKeys(Structure(st, i)) = {ROOT}
\* the store as it was is still there: no instance and no dict was changed
Untouched ==
    /\ \A i \in 1..Len(objs) : i <= Len(objs') /\ objs'[i] = objs[i]
    /\ \A d \in 1..Len(dicts) : d <= Len(dicts') /\ dicts'[d] = dicts[d]

\* the keys a constructor or _update call supplied, with their values
Supplied(c) ==
    IF c.root # MISSING THEN Append(c.kw, Item(ROOT, c.root)) ELSE c.kw
NoUnderscore(kw) == \A i \in 1..Len(kw) : ~startswith_underscore(kw[i].key)

----------------------------------------------------------------------------
(* C1 *)

\* C1 as claimed: for every set of named slots without an underscore name,
\* the root slot alone included, construction succeeds and the attribute
\* read and the bracket read of every supplied key return the value supplied.
C1_AsClaimed ==
    (call.op = "init" /\ NoUnderscore(call.kw)) =>
        /\ err = "none"
        /\ \A i \in 1..Len(Supplied(call)) :
            LET key == Supplied(call)[i].key
                value == Supplied(call)[i].val
            IN  /\ __getattr__(Now, Len(objs), key) = Ok(Now, value)
                /\ __getitem__(Now, Len(objs), StrKey(key)) = Ok(Now, value)

\* C1, amended: construction succeeds and the attribute read of every
\* supplied key returns the value supplied; so does the bracket read, unless
\* root is the only slot: then the bracket read is forwarded to the root
\* payload, which raises TypeError for a raw value or a tuple and, for a
\* nested container, answers with that container's own bracket read.
C1_Readable ==
    (call.op = "init" /\ NoUnderscore(call.kw)) =>
        /\ err = "none"
        /\ ret = Ref(Len(objs))
        /\ \A i \in 1..Len(Supplied(call)) :
            LET key == Supplied(call)[i].key
                value == Supplied(call)[i].val
                read == __getitem__(Now, Len(objs), StrKey(key))
            IN  /\ __getattr__(Now, Len(objs), key) = Ok(Now, value)
                /\ Len(Supplied(call)) > 1 \/ key # ROOT => read = Ok(Now, value)
                /\ (Len(Supplied(call)) = 1 /\ key = ROOT) =>
                      IF isStructured(value)
                      THEN read = __getitem__(Now, value.n, StrKey(ROOT))
                      ELSE read = Raise(Now, "TypeError")

\* a container was built from a root and two named slots
C1_Witness ==
    /\ Succeeded("init")
    /\ call.root # MISSING
    /\ Len(call.kw) = 2
    /\ Len(Structure(Now, Len(objs))) = 3

----------------------------------------------------------------------------
(* C2 *)

\* what iteration over instance i has to yield, by the order the keys were
\* first inserted in
ExpectedIter(i) ==
    LET items == Structure(Now, i)
        keys == order[objs[i].structure]
    IN  IF DictKeys(items) = {ROOT}
        THEN IF isTuple(Get(items, ROOT))
             THEN [j \in 1..Len(Get(items, ROOT).g) |-> Leaf(Get(items, ROOT).g[j])]
             ELSE <<Get(items, ROOT)>>
        ELSE (IF ROOT \in DictKeys(items) THEN <<Get(items, ROOT)>> ELSE <<>>)
             \o [j \in 1..Len(keys) |-> Get(items, keys[j])]

\* C2: iteration yields the elements of a root tuple when root is the only
\* slot, the root payload alone when root is the only slot and no tuple, and
\* otherwise the root payload as one item first, then the non-root values in
\* the order their keys were first inserted.
C2_Iteration ==
    /\ \A i \in Ids :
        /\ Range(order[objs[i].structure]) = DictKeys(Structure(Now, i)) \ {ROOT}
        /\ __iter__(Now, i) = ExpectedIter(i)
    /\ Succeeded("iter") => yielded = ExpectedIter(call.self)

\* root was written after another key, and is yielded first, whole
C2_Witness ==
    /\ Succeeded("setattr")
    /\ call.key = StrKey(ROOT)
    /\ call.val = Group(<<1, 2>>)
    /\ KeyList(Structure(Now, call.self)) = <<NameA, ROOT>>
    /\ __iter__(Now, call.self) = <<Group(<<1, 2>>), Leaf(2)>>

----------------------------------------------------------------------------
(* C5 *)

\* C5: a call that fails leaves every slot map, mapped-attrs and metadata as
\* they were: a bracket write with a key that is no identifier or starts with
\* an underscore (KeyError), a bracket read of an absent key (KeyError), an
\* attribute read of a name that is no slot and no mapped attribute
\* (AttributeError), _simplify with inplace and unwrap (RuntimeError).
C5_FailsAtomically ==
    [][LET c == call'
           items == Structure(Now, c.self)
       IN  /\ err' # "none" => objs' = objs /\ dicts' = dicts
           /\ (c.op = "setitem" /\ (c.key.kind # "str" \/ ~isidentifier(c.key.s)
                                    \/ startswith_underscore(c.key.s)))
                 => err' = "KeyError"
           /\ (c.op = "getitem" /\ ~RootOnly(Now, c.self)
                   /\ ~(ROOT \in DictKeys(items) /\ c.key \in {NoneKey, StrKey(ROOT)})
                   /\ ~(c.key.kind = "str" /\ c.key.s \in DictKeys(items)))
                 => err' = "KeyError"
           /\ (c.op = "getattr" /\ c.key.s \notin DictKeys(items)
                   /\ c.key.s \notin objs[c.self].mapped_attrs)
                 => err' = "AttributeError"
           /\ (c.op = "simplify" /\ c.inplace /\ c.unwrap) => err' = "RuntimeError"
      ]_vars

\* a bracket write with a key that is no identifier was refused
C5_Witness ==
    /\ call.op = "setitem"
    /\ call.key = StrKey(NameSpace)
    /\ err = "KeyError"

----------------------------------------------------------------------------
(* C6 *)

----------------------------------------------------------------------------
(* C8 *)

\* C8 as claimed: every key of every slot map is a non-empty valid
\* identifier that does not begin with an underscore.
C8_KeysAreIdentifiers ==
    \A d \in 1..Len(dicts) : \A key \in DictKeys(dicts[d]) :
        isidentifier(key) /\ ~startswith_underscore(key)

----------------------------------------------------------------------------
(* C3 *)

\* what a chain of root-only wrappers ends in: the first value down the
\* roots that is no container or is a container with no root or with more
\* than a root
RECURSIVE ChainEnd(_, _)
ChainEnd(st, v) ==
    IF isStructured(v) /\ RootOnly(st, v.n)
    THEN ChainEnd(st, Get(Structure(st, v.n), ROOT))
    ELSE v

\* the last container down a chain of root-only wrappers
RECURSIVE LastBox(_, _)
LastBox(st, i) ==
    IF RootOnly(st, i) /\ isStructured(Get(Structure(st, i), ROOT))
    THEN LastBox(st, Get(Structure(st, i), ROOT).n)
    ELSE i

\* C3: _simplify walks down the chain of root-only wrappers.  With unwrap a
\* chain that ends in a value that is no container gives that bare value;
\* without unwrap the result is always a container, the root-only container
\* of that value when the chain ends in a value that is no container; a
\* chain that ends in a container is collapsed onto that container's slots.
C3_Walk ==
    [][SucceededP("simplify") =>
        LET c == call'
            end == ChainEnd(Now, Ref(c.self))
            res == Structure(NowP, ret'.n)
        IN  /\ (c.unwrap /\ ~isStructured(end)) =>
                  ret' = end /\ objs' = objs /\ dicts' = dicts
            /\ ~c.unwrap => isStructured(ret')
            /\ (~c.unwrap /\ ~isStructured(end)) => res = <<Item(ROOT, end)>>
            /\ isStructured(end) =>
                  /\ isStructured(ret')
                  /\ DictKeys(res) = DictKeys(Structure(Now, end.n))
                  /\ Len(res) = Len(Structure(Now, end.n))
                  /\ ~c.recurse =>
                        \A key \in DictKeys(res) :
                            Get(res, key) = Get(Structure(Now, end.n), key)
            /\ ~c.inplace => Untouched
            /\ c.inplace => ret' = Ref(c.self)
      ]_vars

\* a wrapper of a root-only container of 1 was simplified without unwrap
\* into a new root-only container of 1
C3_Witness ==
    /\ Succeeded("simplify")
    /\ ~call.unwrap /\ ~call.inplace
    /\ RootOnly(Now, call.self)
    /\ isStructured(Get(Structure(Now, call.self), ROOT))
    /\ ret.n > call.self
    /\ Structure(Now, ret.n) = <<Item(ROOT, Leaf(1))>>

----------------------------------------------------------------------------
(* C4 *)

\* the container whose slots _simplify goes through
Stop(c) ==
    IF c.unwrap THEN ChainEnd(Now, Ref(c.self)).n ELSE LastBox(Now, c.self)

\* C4 as claimed: with recurse and without unwrap, a nested root-only
\* container of a value that is no container stays a container in the
\* result.
C4_AsClaimed ==
    [][(SucceededP("simplify") /\ call'.recurse /\ ~call'.unwrap) =>
        LET old == Structure(Now, Stop(call'))
            res == Structure(NowP, ret'.n)
        IN  \A key \in DictKeys(old) :
                (/\ isStructured(Get(old, key))
                 /\ RootOnly(Now, Get(old, key).n)
                 /\ ~isStructured(Get(Structure(Now, Get(old, key).n), ROOT)))
                    => isStructured(Get(res, key))
      ]_vars

\* C4, amended: with recurse, _simplify replaces every slot value that is a
\* container by that container's own simplification with unwrap, whatever
\* unwrap the outer call has: the bare value its chain of root-only wrappers
\* ends in, or a new container on the slots of the container the chain ends
\* in, with the nested container's mapped-attrs and metadata.  Without
\* recurse the slot values are left as stored.
C4_Recurse ==
    [][(SucceededP("simplify") /\ isStructured(ret')) =>
        LET c == call'
            old == Structure(Now, Stop(c))
            res == Structure(NowP, ret'.n)
        IN  /\ DictKeys(res) = DictKeys(old)
            /\ \A key \in DictKeys(old) :
                LET was == Get(old, key)
                    is == Get(res, key)
                    end == ChainEnd(Now, was)
                IN  IF ~c.recurse \/ ~isStructured(was) THEN is = was
                    ELSE IF ~isStructured(end) THEN is = end
                    ELSE /\ isStructured(is)
                         /\ is.n > Len(objs)
                         /\ DictKeys(Structure(NowP, is.n)) = DictKeys(Structure(Now, end.n))
                         /\ objs'[is.n].mapped_attrs = objs[was.n].mapped_attrs
                         /\ objs'[is.n].metadata = objs[was.n].metadata
      ]_vars

\* without unwrap, the root-only container of 1 under a came out as 1
C4_Witness ==
    /\ Succeeded("simplify")
    /\ call.recurse /\ ~call.unwrap /\ ~call.inplace
    /\ HasKey(Structure(Now, call.self), NameA)
    /\ isStructured(Get(Structure(Now, call.self), NameA))
    /\ Structure(Now, Get(Structure(Now, call.self), NameA).n) = <<Item(ROOT, Leaf(1))>>
    /\ Structure(Now, ret.n) = <<Item(NameA, Leaf(1))>>

----------------------------------------------------------------------------
(* C7 *)

\* new is what _map makes of the slot value old
RECURSIVE Mapped(_, _, _)
Mapped(old, new, recurse) ==
    CASE old.k = "leaf" -> new = Leaf(old.n + 10)
      [] old.k = "group" ->
            /\ isTuple(new)
            /\ Len(new.g) = Len(old.g)
            /\ \A i \in 1..Len(old.g) : new.g[i] = old.g[i] + 10
      [] old.k = "ref" ->
            IF recurse
            THEN /\ isStructured(new)
                 /\ new.n > Len(objs)
                 /\ objs'[new.n].mapped_attrs = {}
                 /\ objs'[new.n].metadata = NoneVal
                 /\ DictKeys(Structure(NowP, new.n)) = DictKeys(Structure(Now, old.n))
                 /\ Len(Structure(NowP, new.n)) = Len(Structure(Now, old.n))
                 /\ \A key \in DictKeys(Structure(Now, old.n)) :
                        Mapped(Get(Structure(Now, old.n), key),
                               Get(Structure(NowP, new.n), key), recurse)
            ELSE new = Opaque(old.n, <<10>>)
      [] old.k = "opaque" -> new = Opaque(old.n, Append(old.g, 10))
      [] OTHER -> FALSE

\* C7: _map(f, recurse) returns a new container with the receiver's slot
\* keys where a value is replaced by f of it, a group by the group of f of
\* its elements, and a nested container by its own map under recurse (f is
\* applied to no container) and by f of the container otherwise; the result
\* has no mapped-attrs and no metadata; the receiver and every other
\* instance are left as they were.
C7_Map ==
    [][call'.op = "map" =>
        /\ err' = "none"
        /\ ret' = Ref(Len(objs'))
        /\ objs'[ret'.n].mapped_attrs = {}
        /\ objs'[ret'.n].metadata = NoneVal
        /\ objs'[ret'.n].structure = Len(dicts')
        /\ DictKeys(Structure(NowP, ret'.n)) = DictKeys(Structure(Now, call'.self))
        /\ Len(Structure(NowP, ret'.n)) = Len(Structure(Now, call'.self))
        /\ \A key \in DictKeys(Structure(Now, call'.self)) :
              Mapped(Get(Structure(Now, call'.self), key),
                     Get(Structure(NowP, ret'.n), key), call'.recurse)
        /\ Untouched
      ]_vars

\* a receiver with mapped-attrs and metadata and a nested container under a
\* was mapped with recurse
C7_Witness ==
    /\ Succeeded("map")
    /\ call.recurse
    /\ objs[call.self].metadata = Leaf(7)
    /\ objs[ret.n].metadata = NoneVal
    /\ KeyList(Structure(Now, call.self)) = <<NameA>>
    /\ isStructured(Get(Structure(Now, call.self), NameA))
    /\ isStructured(Get(Structure(Now, ret.n), NameA))
    /\ KeyList(Structure(Now, Get(Structure(Now, ret.n), NameA).n)) = <<ROOT>>
    /\ Get(Structure(Now, Get(Structure(Now, ret.n), NameA).n), ROOT) = Group(<<11, 12>>)

----------------------------------------------------------------------------
(* C9 *)

\* C9: when _simplify with recurse returns a container, that container is no
\* root-only wrapper of a container, no container under it is a root-only
\* container, and simplifying it again with the same unwrap and recurse
\* returns a value equal to it.
C9_NormalForm ==
    (Succeeded("simplify") /\ call.recurse /\ isStructured(ret)) =>
        LET again == _simplify(Now, ret.n, TRUE, call.unwrap, FALSE)
        IN  /\ ~(RootOnly(Now, ret.n) /\ isStructured(Get(Structure(Now, ret.n), ROOT)))
            /\ \A i \in Reach(Now, ret.n) \ {ret.n} : ~RootOnly(Now, i)
            /\ again.err = "none"
            /\ __eq__(again.st, again.val, ret)

\* the result holds a nested container, which has a root and more
C9_Witness ==
    /\ Succeeded("simplify")
    /\ call.recurse
    /\ isStructured(ret)
    /\ HasKey(Structure(Now, ret.n), NameA)
    /\ isStructured(Get(Structure(Now, ret.n), NameA))
    /\ KeyList(Structure(Now, Get(Structure(Now, ret.n), NameA).n)) = <<NameA, ROOT>>

----------------------------------------------------------------------------
(* C10 *)

\* C10 as claimed: after _simplify(inplace=True, unwrap=False) the receiver
\* shares its slot map with no other instance, so that a write on the
\* receiver changes the slots of no other instance and a write on another
\* instance changes none of the receiver's; and the container a _simplify
\* that is not in place returns has a slot map of its own.
C10_NotShared ==
    /\ (Succeeded("simplify") /\ call.inplace /\ ~call.unwrap) =>
          \A j \in Ids \ {call.self} :
              /\ objs[j].structure # objs[call.self].structure
              /\ Structure(__setattr__(Now, call.self, NameB, Leaf(9)).st, j)
                    = Structure(Now, j)
              /\ Structure(__setitem__(Now, j, StrKey(NameB), Leaf(9)).st, call.self)
                    = Structure(Now, call.self)
    /\ (Succeeded("simplify") /\ ~call.inplace /\ isStructured(ret)) =>
          \A j \in Ids \ {ret.n} : objs[j].structure # objs[ret.n].structure

====
